---------------------------- MODULE Spec2Model ----------------------------
(***************************************************************************)
(* A model of the image generator: the Proxy Gateway                       *)
(* (src/app/api/generate-friendli/route.ts, POST) and the Request Composer *)
(* (the page component ImageGeneratorPage: handleGenerateClick and the     *)
(* other handlers that write the same React state).                        *)
(*                                                                         *)
(* JavaScript values are tagged records, HTTP bodies are texts that either *)
(* carry a JSON value or do not parse, and an awaited promise is a result  *)
(* that is either fulfilled (ok) or rejected with an Error.                *)
(***************************************************************************)
EXTENDS Integers, Sequences, FiniteSets, TLC

(***************************************************************************)
(* JavaScript values                                                       *)
(***************************************************************************)
Undefined == [t |-> "undefined"]

Null == [t |-> "null"]

Str(s) == [t |-> "string", s |-> s]

Num(n) == [t |-> "number", n |-> n]

Obj(o) == [t |-> "object", o |-> o]

Arr(a) == [t |-> "array", a |-> a]

\* An object without own properties: {}
EmptyObj == Obj([k \in {} |-> Undefined])

\* ToBoolean: what `!v`, `a || b` and `if (v)` test.
Truthy(v) ==
    CASE v.t = "undefined" -> FALSE
      [] v.t = "null" -> FALSE
      [] v.t = "string" -> v.s # ""
      [] v.t = "number" -> v.n # 0
      [] OTHER -> TRUE

\* a || b
OrElse(a, b) == IF Truthy(a) THEN a ELSE b

Digit(d) == CASE d = 0 -> "0" [] d = 1 -> "1" [] d = 2 -> "2" [] d = 3 -> "3"
              [] d = 4 -> "4" [] d = 5 -> "5" [] d = 6 -> "6" [] d = 7 -> "7"
              [] d = 8 -> "8" [] OTHER -> "9"

RECURSIVE NatToString(_)
NatToString(n) == IF n < 10 THEN Digit(n) ELSE NatToString(n \div 10) \o Digit(n % 10)

\* ToString, as a template literal `${v}` applies it (arrays do not occur
\* where the code interpolates).
TemplateString(v) ==
    CASE v.t = "undefined" -> "undefined"
      [] v.t = "null" -> "null"
      [] v.t = "string" -> v.s
      [] v.t = "number" -> NatToString(v.n)
      [] OTHER -> "[object Object]"

\* A completed await / call: fulfilled with a value or rejected with an Error.
Ok(v) == [ok |-> TRUE, v |-> v]

Err(name, message) == [ok |-> FALSE, e |-> [name |-> name, message |-> message]]

\* v.k : undefined on a missing property or a primitive, a TypeError on
\* null and undefined.
GetProp(v, k) ==
    CASE v.t \in {"undefined", "null"} ->
            Err("TypeError", "Cannot read properties of " \o v.t)
      [] v.t = "object" -> Ok(IF k \in DOMAIN v.o THEN v.o[k] ELSE Undefined)
      [] OTHER -> Ok(Undefined)

\* v?.k : undefined where v.k would throw.
GetPropOptional(v, k) ==
    IF v.t \in {"undefined", "null"} THEN Undefined ELSE GetProp(v, k).v

(***************************************************************************)
(* JSON texts.  A text either carries a JSON value (written canonically,   *)
(* as JSON.stringify writes it, or with other spacing) or does not parse.  *)
(***************************************************************************)
JsonText(v, canonical) == [kind |-> "json", value |-> v, canonical |-> canonical]

RawText(s) == [kind |-> "raw", raw |-> s]

\* JSON.stringify leaves out the properties whose value is undefined.
StripUndefined(v) ==
    IF v.t = "object"
    THEN Obj([k \in {j \in DOMAIN v.o : v.o[j] # Undefined} |-> v.o[k]])
    ELSE v

\* The element of a one-element set: { F(x) : x \in {e} } computes e once
\* and hands its value to F.
The(S) == CHOOSE x \in S : TRUE

JSONstringify(v) == The({ JsonText(StripUndefined(x), TRUE) : x \in {v} })

JSONparse(text) ==
    IF text.kind = "json" THEN Ok(text.value)
    ELSE Err("SyntaxError", "Unexpected token in JSON")


\* The order in which the texts of this model write the keys of an object.
KeyOrder == << "model", "prompt", "negative_prompt", "num_inference_steps",
               "guidance_scale", "width", "height", "response_format", "seed",
               "detail", "error", "message", "code", "data", "url" >>

RECURSIVE Serialize(_)
RECURSIVE SerializeMembers(_, _, _)
RECURSIVE SerializeElements(_, _)
\* The characters JSON.stringify writes for a value.
Serialize(v) ==
    CASE v.t = "string" -> "\"" \o v.s \o "\""
      [] v.t = "number" -> NatToString(v.n)
      [] v.t = "object" -> "{" \o SerializeMembers(v.o, 1, TRUE) \o "}"
      [] v.t = "array" -> "[" \o SerializeElements(v.a, 1) \o "]"
      [] OTHER -> "null"

SerializeMembers(o, i, first) ==
    IF i > Len(KeyOrder) THEN ""
    ELSE IF KeyOrder[i] \in DOMAIN o
         THEN (IF first THEN "" ELSE ",") \o "\"" \o KeyOrder[i] \o "\":"
              \o Serialize(o[KeyOrder[i]]) \o SerializeMembers(o, i + 1, FALSE)
         ELSE SerializeMembers(o, i + 1, first)

SerializeElements(a, i) ==
    IF i > Len(a) THEN ""
    ELSE (IF i = 1 THEN "" ELSE ",") \o Serialize(a[i]) \o SerializeElements(a, i + 1)

\* The characters of a text: a JSON text that is not canonical is the same
\* document followed by a line break.
TextToString(text) ==
    IF text.kind = "raw" THEN text.raw
    ELSE IF text.canonical THEN Serialize(text.value)
    ELSE Serialize(text.value) \o "\n"


(***************************************************************************)
(* State                                                                   *)
(***************************************************************************)
VARIABLES
    env,                    \* process.env: the three configuration values
    FRIENDLI_API_TOKEN,     \* module constant of route.ts, read when the module loads
    FRIENDLI_API_ENDPOINT,  \* module constant of route.ts, read when the module loads
    gw,                     \* the last Gateway invocation: its inputs and what it did
    served,                 \* since the module was loaded: the number of invocations
                            \* the route has handled and the calls the provider has
                            \* received, in their order
    \* React state of ImageGeneratorPage (lines 85-103)
    prompt,
    negativePrompt,
    resolution,
    steps,
    guidanceScale,
    generatedImageUrl,
    isLoading,
    error,
    lastGeneratedPrompt,
    generationHistory,
    showHistory,
    currentBlobUrl,
    stylePreset,
    showSuggestions,
    \* the run-time around the component
    now,                    \* the clock new Date() reads; it ticks at every generation
    pending,                \* the generation requests whose fetch has not settled
    downloading,            \* the image fetches of downloads that have not settled
    last                    \* the last handler of the page that ran, and its input

gatewayVars == << env, FRIENDLI_API_TOKEN, FRIENDLI_API_ENDPOINT, gw, served >>

formVars == << prompt, negativePrompt, resolution, steps, guidanceScale >>

resultVars == << generatedImageUrl, isLoading, error, lastGeneratedPrompt,
                 generationHistory, showHistory >>

runVars == << now, pending, last >>

\* What the download and the prompt helpers keep besides the above.
sessionVars == << currentBlobUrl, stylePreset, showSuggestions, downloading >>

composerVars == << formVars, resultVars, runVars, sessionVars >>

vars == << gatewayVars, composerVars >>

(***************************************************************************)
(* The fetch API: a Response whose body can be read once                   *)
(***************************************************************************)
\* response.ok
ResponseOk(response) == response.status >= 200 /\ response.status <= 299

\* The Response a resolved fetch hands over: nothing has read its body yet.
FetchResponse(pb) ==
    [status |-> pb.status, statusText |-> pb.statusText,
     contentType |-> pb.contentType, body |-> pb.body,
     readable |-> pb.readable, bodyUsed |-> FALSE]

\* fetch(url, init): rejects when the transport fails.
Fetch(pb) ==
    IF pb.fetch = "reject" THEN Err("TypeError", "fetch failed")
    ELSE Ok(FetchResponse(pb))

\* Any read of the body (json() or text()) leaves the body used, also when
\* the read or the parse fails.
AfterBodyRead(response) == [response EXCEPT !.bodyUsed = TRUE]

\* response.json()
ResponseJson(response) ==
    IF response.bodyUsed THEN Err("TypeError", "Body is unusable: Body has already been read")
    ELSE IF ~response.readable THEN Err("TypeError", "terminated")
    ELSE JSONparse(response.body)

\* response.text()
ResponseText(response) ==
    IF response.bodyUsed THEN Err("TypeError", "Body is unusable: Body has already been read")
    ELSE IF ~response.readable THEN Err("TypeError", "terminated")
    ELSE Ok(Str(TextToString(response.body)))

\* headers.get("content-type") followed by .includes("application/json"),
\* a substring test, over the content types of this model.
IncludesApplicationJson(contentType) ==
    contentType \in {"application/json", "application/json; charset=utf-8",
                     "application/json-seq"}

\* NextResponse.json(data, {status})
NextResponseJson(data, status) ==
    [status |-> status, contentType |-> "application/json", body |-> JSONstringify(data)]

(***************************************************************************)
(* The Proxy Gateway: POST of route.ts                                     *)
(***************************************************************************)
\* How a run of the handler ends: a Response for the caller, or an exception
\* that leaves the handler; `outbound` lists the calls made to the provider.
Return(response, outbound) ==
    [kind |-> "return", response |-> response, outbound |-> outbound]

Throw(e, outbound) == [kind |-> "throw", error |-> e, outbound |-> outbound]

ErrorBody(message) == Obj([error |-> Str(message)])

\* The payload with the model taken from the client when it names one.
PayloadPreferringClientModel(friendliModelId, clientPayload) ==
    Obj([model |-> OrElse(GetProp(clientPayload, "model").v, friendliModelId),
         prompt |-> GetProp(clientPayload, "prompt").v,
         negative_prompt |-> GetProp(clientPayload, "negative_prompt").v,
         num_inference_steps |-> GetProp(clientPayload, "num_inference_steps").v,
         guidance_scale |-> GetProp(clientPayload, "guidance_scale").v,
         width |-> GetProp(clientPayload, "width").v,
         height |-> GetProp(clientPayload, "height").v,
         response_format |-> GetProp(clientPayload, "response_format").v])

\* Lines 64-74: the payload for the provider.
PayloadForFriendli(friendliModelId, clientPayload) ==
    Obj([model |-> friendliModelId,
         prompt |-> GetProp(clientPayload, "prompt").v,
         negative_prompt |-> GetProp(clientPayload, "negative_prompt").v,
         num_inference_steps |-> GetProp(clientPayload, "num_inference_steps").v,
         guidance_scale |-> GetProp(clientPayload, "guidance_scale").v,
         width |-> GetProp(clientPayload, "width").v,
         height |-> GetProp(clientPayload, "height").v,
         response_format |-> GetProp(clientPayload, "response_format").v])

\* Lines 80-87: the one call to the provider.
OutboundCall(token, endpoint, payloadForFriendli) ==
    [url |-> endpoint.s, method |-> "POST", contentType |-> "application/json",
     authorization |-> "Bearer " \o TemplateString(token),
     body |-> JSONstringify(payloadForFriendli)]

\* The details that take the nested error before its message.
ErrorJsonDetailsWithoutMessage(errorJson) ==
    LET detail == GetProp(errorJson, "detail").v
        nested == GetProp(errorJson, "error").v
    IN OrElse(detail, OrElse(nested, Str(TextToString(JSONstringify(errorJson)))))

\* Line 95, with errorJson parsed.
ErrorJsonDetails(errorJson) ==
    LET detail == GetProp(errorJson, "detail").v
        nested == GetProp(errorJson, "error").v
    IN OrElse(detail,
              OrElse(GetPropOptional(nested, "message"),
                     OrElse(nested, Str(TextToString(JSONstringify(errorJson))))))

\* Lines 92-103: the error details of a provider response that is not ok.
ErrorDetails(friendliResponse) ==
    LET errorJson == ResponseJson(friendliResponse)
        afterJson == AfterBodyRead(friendliResponse)
    IN IF errorJson.ok /\ GetProp(errorJson.v, "detail").ok
       THEN ErrorJsonDetails(errorJson.v)
       ELSE LET text == ResponseText(afterJson)
            IN IF text.ok THEN text.v ELSE Str(friendliResponse.statusText)

\* The handling that forwards a successful response under the provider's
\* own status.
HandleForwardingProviderStatus(friendliResponse, outbound) ==
    IF ~ResponseOk(friendliResponse)
    THEN Return(NextResponseJson(
                    ErrorBody("Friendli API Error: "
                              \o TemplateString(ErrorDetails(friendliResponse))),
                    friendliResponse.status), outbound)
    ELSE IF Truthy(friendliResponse.contentType)
            /\ IncludesApplicationJson(friendliResponse.contentType.s)
    THEN LET responseData == ResponseJson(friendliResponse)
         IN IF responseData.ok
            THEN Return(NextResponseJson(responseData.v, friendliResponse.status), outbound)
            ELSE Throw(responseData.e, outbound)
    ELSE LET responseText == ResponseText(friendliResponse)
         IN IF responseText.ok
            THEN Return(NextResponseJson(
                            ErrorBody("Received unexpected response format from Friendli API."),
                            500), outbound)
            ELSE Throw(responseText.e, outbound)

\* The handling that forwards a successful response whatever its content
\* type says.
HandleForwardingAnyContentType(friendliResponse, outbound) ==
    IF ~ResponseOk(friendliResponse)
    THEN Return(NextResponseJson(
                    ErrorBody("Friendli API Error: "
                              \o TemplateString(ErrorDetails(friendliResponse))),
                    friendliResponse.status), outbound)
    ELSE LET responseData == ResponseJson(friendliResponse)
         IN IF responseData.ok
            THEN Return(NextResponseJson(responseData.v, 200), outbound)
            ELSE Throw(responseData.e, outbound)

\* Lines 90-122: what the handler does with the provider's response.
HandleFriendliResponse(friendliResponse, outbound) ==
    IF ~ResponseOk(friendliResponse)
    THEN Return(NextResponseJson(
                    ErrorBody("Friendli API Error: "
                              \o TemplateString(ErrorDetails(friendliResponse))),
                    friendliResponse.status), outbound)
    ELSE IF Truthy(friendliResponse.contentType)
            /\ IncludesApplicationJson(friendliResponse.contentType.s)
    THEN LET responseData == ResponseJson(friendliResponse)
         IN IF responseData.ok
            THEN Return(NextResponseJson(responseData.v, 200), outbound)
            ELSE Throw(responseData.e, outbound)
    ELSE LET responseText == ResponseText(friendliResponse)
         IN IF responseText.ok
            THEN Return(NextResponseJson(
                            ErrorBody("Received unexpected response format from Friendli API."),
                            500), outbound)
            ELSE Throw(responseText.e, outbound)

\* The call that is made once more when the transport fails.
CallFriendliWithRetry(outbound, pb) ==
    The({ IF ~friendliResponse.ok THEN Throw(friendliResponse.e, outbound \o outbound)
          ELSE HandleFriendliResponse(friendliResponse.v, outbound) :
            friendliResponse \in {Fetch(pb)} })

\* Lines 76-122: the call to the provider and the handling of its answer.
CallFriendli(outbound, pb) ==
    The({ IF ~friendliResponse.ok THEN Throw(friendliResponse.e, outbound)
          ELSE HandleFriendliResponse(friendliResponse.v, outbound) :
            friendliResponse \in {Fetch(pb)} })

\* Lines 59-123: the body of the try statement.
TryBlock(token, endpoint, friendliModelId, request, pb) ==
    The({ IF ~clientPayload.ok THEN Throw(clientPayload.e, << >>)
          ELSE IF ~GetProp(clientPayload.v, "prompt").ok
          THEN Throw(GetProp(clientPayload.v, "prompt").e, << >>)
          ELSE The({ CallFriendli(outbound, pb) :
                       outbound \in {<< OutboundCall(token, endpoint,
                                          PayloadForFriendli(friendliModelId,
                                                             clientPayload.v)) >>} }) :
            clientPayload \in {JSONparse(request.body)} })

\* A catch clause that reports the failed call with its headers.
CatchReportingCall(attempt) ==
    IF attempt.kind = "throw"
    THEN Return(NextResponseJson(
                    Obj([error |-> Str(IF attempt.outbound = << >>
                                       THEN attempt.error.message
                                       ELSE attempt.error.message \o " ("
                                            \o attempt.outbound[1].authorization \o ")")]),
                    500), attempt.outbound)
    ELSE attempt

\* No catch clause: the exception leaves the handler.
CatchNothing(attempt) == attempt

\* Lines 124-128: the catch clause.
Catch(attempt) ==
    IF attempt.kind = "throw"
    THEN Return(NextResponseJson(
                    Obj([error |-> OrElse(Str(attempt.error.message),
                                          Str("Internal Server Error occurred in API route."))]),
                    500), attempt.outbound)
    ELSE attempt

\* The handler without the check of the endpoint id (lines 53-56 left out).
HandlerWithoutIdCheck(token, endpoint, friendliModelId, request, pb) ==
    IF ~Truthy(token)
    THEN Return(NextResponseJson(
                    ErrorBody("Server configuration error: API token missing."), 500), << >>)
    ELSE IF ~Truthy(endpoint)
    THEN Return(NextResponseJson(
                    ErrorBody("Server configuration error: API endpoint missing."), 500), << >>)
    ELSE The({ Catch(attempt) :
                 attempt \in {TryBlock(token, endpoint, friendliModelId, request, pb)} })

\* Lines 38-129, with the configuration the handler sees as parameters.
Handler(token, endpoint, friendliModelId, request, pb) ==
    IF ~Truthy(token)
    THEN Return(NextResponseJson(
                    ErrorBody("Server configuration error: API token missing."), 500), << >>)
    ELSE IF ~Truthy(endpoint)
    THEN Return(NextResponseJson(
                    ErrorBody("Server configuration error: API endpoint missing."), 500), << >>)
    ELSE IF ~Truthy(friendliModelId)
    THEN Return(NextResponseJson(
                    ErrorBody("Server configuration error: Endpoint ID missing."), 500), << >>)
    ELSE The({ Catch(attempt) :
                 attempt \in {TryBlock(token, endpoint, friendliModelId, request, pb)} })

\* POST(request): the token and the endpoint URL are the module's constants,
\* the endpoint id is read from process.env in the handler (line 52).
POST(request, pb) ==
    Handler(FRIENDLI_API_TOKEN, FRIENDLI_API_ENDPOINT, env.FRIENDLI_ENDPOINT_ID,
            request, pb)


(***************************************************************************)
(* The inputs of the Gateway: configurations, request bodies and what the  *)
(* provider does with the call                                             *)
(***************************************************************************)
ServerModelId == Str("ep-server")

ProviderUrl == Str("https://api.friendli.example/v1/images/generations")

TokenValues == {Undefined, Str("token-A"), Str("token-B")}

EndpointValues == {Undefined, Str(""), ProviderUrl}

EndpointIdValues == {Undefined, ServerModelId}

Environments ==
    [FRIENDLI_API_TOKEN : TokenValues, FRIENDLI_API_ENDPOINT : EndpointValues,
     FRIENDLI_ENDPOINT_ID : EndpointIdValues]

FullEnvironment ==
    [FRIENDLI_API_TOKEN |-> Str("token-A"), FRIENDLI_API_ENDPOINT |-> ProviderUrl,
     FRIENDLI_ENDPOINT_ID |-> ServerModelId]

\* A GenerationRequest as the Composer writes it, without a negative prompt.
RedCubePayload ==
    Obj([prompt |-> Str("a red cube"), num_inference_steps |-> Num(30),
         guidance_scale |-> Num(7), width |-> Num(1024), height |-> Num(1024),
         response_format |-> Str("url")])

\* The object v with the properties of `more` added or overwritten.
With(v, more) ==
    Obj([k \in DOMAIN v.o \cup DOMAIN more |->
            IF k \in DOMAIN more THEN more[k] ELSE v.o[k]])

\* Request bodies of any HTTP client: the Composer's, one that names a model
\* and a seed of its own, ones that are not a GenerationRequest, and one
\* that is not JSON.
ClientBodies ==
    { JsonText(RedCubePayload, TRUE),
      JsonText(With(RedCubePayload, [negative_prompt |-> Str("blurry")]), TRUE),
      JsonText(With(RedCubePayload, [model |-> Str("ep-attacker"), seed |-> Num(42)]), FALSE),
      JsonText(EmptyObj, TRUE),
      JsonText(Str("a red cube"), TRUE),
      JsonText(Null, TRUE),
      RawText("{prompt:") }

ImageBody(url) == Obj([data |-> Arr(<< Obj([url |-> Str(url)]) >>)])

\* Bodies a provider answers with.
ProviderBodies ==
    { JsonText(ImageBody("https://x/img.png"), TRUE),
      JsonText(ImageBody("https://x/img.png"), FALSE),
      JsonText(Obj([data |-> Arr(<< >>)]), TRUE),
      JsonText(Obj([detail |-> Str("Invalid width")]), TRUE),
      JsonText(Obj([error |-> Obj([message |-> Str("rate limited")])]), TRUE),
      JsonText(Obj([error |-> Str("quota exceeded")]), FALSE),
      JsonText(Obj([detail |-> Str(""), error |-> Obj([message |-> Str("rate limited"),
                                                       code |-> Num(7)])]), TRUE),
      JsonText(Obj([detail |-> Str("Invalid width"), error |-> Str("quota exceeded")]), TRUE),
      JsonText(Obj([message |-> Str("no such endpoint")]), FALSE),
      JsonText(Null, TRUE),
      RawText("<html>Bad Gateway</html>"),
      RawText("") }

ReasonPhrase(status) ==
    CASE status = 200 -> "OK"
      [] status = 201 -> "Created"
      [] status = 400 -> "Bad Request"
      [] status = 404 -> "Not Found"
      [] status = 429 -> "Too Many Requests"
      [] status = 500 -> "Internal Server Error"
      [] status = 502 -> "Bad Gateway"
      [] OTHER -> ""

ProviderStatuses == {200, 201, 400, 429, 502}

ProviderContentTypes ==
    {Str("application/json"), Str("application/json; charset=utf-8"),
     Str("application/json-seq"), Str("text/html"), Null}

\* What the provider does with a call: the transport fails, or a response
\* arrives, whose body may still break off while it is read.
ProviderBehaviours ==
    { [fetch |-> "reject"] }
    \cup { [fetch |-> "resolve", status |-> st, statusText |-> ReasonPhrase(st),
            contentType |-> ct, body |-> b, readable |-> TRUE] :
              st \in ProviderStatuses, ct \in ProviderContentTypes, b \in ProviderBodies }
    \cup { [fetch |-> "resolve", status |-> st, statusText |-> ReasonPhrase(st),
            contentType |-> ct, body |-> JsonText(Obj([detail |-> Str("Invalid width")]), TRUE),
            readable |-> FALSE] :
              st \in ProviderStatuses, ct \in ProviderContentTypes }

(***************************************************************************)
(* The Request Composer: ImageGeneratorPage                                *)
(***************************************************************************)
DEFAULT_RESOLUTION == "1024x1024"

DEFAULT_STEPS == 30

DEFAULT_GUIDANCE_SCALE == 7

\* The number of earlier entries a new history entry keeps behind it
\* (previousHistory.slice(0, 9)).
HistoryKept == 9

\* What the user types as a prompt: nothing, blanks, and prompts.
Prompts == {"", "  ", "a red cube", " a cat "}

NegativePrompts == {"", "blurry"}

Resolutions == {"512x512", "768x768", "1024x1024"}

\* Positions of the two sliders (steps: 10 to 50; guidance: 1 to 15, of
\* which the whole values).
StepValues == {30, 50}

GuidanceValues == {7, 15}

\* String.prototype.trim, over the prompts of this model.
Trim(s) ==
    CASE s = "  " -> ""
      [] s = " a cat " -> "a cat"
      [] s = "a cat, " -> "a cat,"
      [] OTHER -> s

\* Lines 109-112: resolutionString.split('x').map(Number), over the
\* resolutions the selector offers (lines 64-68).
getResolutionDimensions(resolutionString) ==
    CASE resolutionString = "512x512" -> [width |-> 512, height |-> 512]
      [] resolutionString = "768x768" -> [width |-> 768, height |-> 768]
      [] resolutionString = "1024x1024" -> [width |-> 1024, height |-> 1024]

Min(a, b) == IF a < b THEN a ELSE b

\* Array.prototype.slice(from, to)
Slice(a, from, to) == SubSeq(a, from + 1, Min(to, Len(a)))

\* The test without the trim.
PromptIsEmpty(p) == ~Truthy(Str(p))

\* Line 135: the test that stops a generation without a prompt.
PromptIsBlank(p) == ~Truthy(Str(Trim(p)))

\* The payload that always carries the negative prompt.
PayloadWithNegativeAlways(p, negative, res, stepCount, guidance) ==
    Obj([prompt |-> Str(p),
         negative_prompt |-> Str(negative),
         num_inference_steps |-> Num(stepCount),
         guidance_scale |-> Num(guidance),
         width |-> Num(getResolutionDimensions(res).width),
         height |-> Num(getResolutionDimensions(res).height),
         response_format |-> Str("url")])

\* Lines 161-171: the payload for the internal API route.
PayloadForApiRoute(p, negative, res, stepCount, guidance) ==
    Obj([prompt |-> Str(p),
         negative_prompt |-> OrElse(Str(negative), Undefined),
         num_inference_steps |-> Num(stepCount),
         guidance_scale |-> Num(guidance),
         width |-> Num(getResolutionDimensions(res).width),
         height |-> Num(getResolutionDimensions(res).height),
         response_format |-> Str("url")])

\* v?.[i]
GetIndexOptional(v, i) ==
    IF v.t = "array" /\ i + 1 <= Len(v.a) THEN v.a[i + 1] ELSE Undefined

\* The URL read from the response, with one to fall back on.
ImageUrlWithDefault(responseData) ==
    OrElse(GetPropOptional(GetIndexOptional(GetPropOptional(responseData, "data"), 0), "url"),
           Str("/placeholder.png"))

\* Line 199: responseData?.data?.[0]?.url
ImageUrlFromApi(responseData) ==
    GetPropOptional(GetIndexOptional(GetPropOptional(responseData, "data"), 0), "url")

\* The interpretation without the check of the image URL (lines 201-204).
InterpretWithoutUrlCheck(fetched) ==
    IF ~fetched.ok THEN fetched
    ELSE LET internalApiResponse == fetched.v
             responseData == ResponseJson(internalApiResponse)
         IN IF ~responseData.ok THEN responseData
            ELSE IF ~ResponseOk(internalApiResponse)
            THEN IF ~GetProp(responseData.v, "error").ok
                 THEN GetProp(responseData.v, "error")
                 ELSE Err("Error",
                          TemplateString(
                              OrElse(GetProp(responseData.v, "error").v,
                                     Str("API request failed: "
                                         \o internalApiResponse.statusText))))
            ELSE Ok(ImageUrlFromApi(responseData.v))

\* Lines 186-204: what the handler makes of the settled fetch: the image
\* URL, or the Error that reaches the catch clause.
InterpretResponse(fetched) ==
    IF ~fetched.ok THEN fetched
    ELSE LET internalApiResponse == fetched.v
             responseData == ResponseJson(internalApiResponse)
         IN IF ~responseData.ok THEN responseData
            ELSE IF ~ResponseOk(internalApiResponse)
            THEN IF ~GetProp(responseData.v, "error").ok
                 THEN GetProp(responseData.v, "error")
                 ELSE Err("Error",
                          TemplateString(
                              OrElse(GetProp(responseData.v, "error").v,
                                     Str("API request failed: "
                                         \o internalApiResponse.statusText))))
            ELSE IF ~Truthy(ImageUrlFromApi(responseData.v))
            THEN Err("Error", "API response structure unexpected or missing image URL.")
            ELSE Ok(ImageUrlFromApi(responseData.v))

\* The history that keeps every earlier entry.
HistoryWithoutSlice(entry, previousHistory) ==
    << entry >> \o previousHistory

\* The history that keeps one earlier entry less.
HistoryKeepingFewer(entry, previousHistory) ==
    << entry >> \o Slice(previousHistory, 0, HistoryKept - 1)

\* Lines 211-214: the history after a successful generation.
HistoryWith(entry, previousHistory) ==
    << entry >> \o Slice(previousHistory, 0, HistoryKept)

\* The prompt as the field holds it when the request completes.
PromptOfField(request, field) == field

\* Lines 208 and 212: `prompt` after the await is the prompt of the render
\* in which the handler was invoked (the closure of useCallback, line 226),
\* the one that line 162 put into the payload; the field as it is when the
\* request completes is not read.
PromptOfRequest(request, field) == request.prompt

\* Line 219: the message the catch clause displays.
CaughtMessage(e) ==
    OrElse(Str(e.message), Str("An unexpected error occurred during image generation."))

\* The loading indicator turned off on the success path only.
LoadingAfterSuccessOnly(outcome, loading) == IF outcome.ok THEN FALSE ELSE loading

\* Lines 221-224: the finally clause turns the loading indicator off.
LoadingAfterSettle(outcome, loading) == FALSE

\* Lines 146-149 and 241-244: a temporary download URL that exists is
\* revoked and forgotten.
RevokedBlobUrl(url) == IF Truthy(url) THEN Null ELSE url

(***************************************************************************)
(* The download of the displayed image (handleDownloadImage)               *)
(***************************************************************************)
\* How the fetch of an image URL can settle: with the image, with a body
\* that breaks off, with the host's refusal, or with a network failure.
ImageFetches ==
    { Ok([status |-> 200, statusText |-> ReasonPhrase(200), readable |-> TRUE]),
      Ok([status |-> 200, statusText |-> ReasonPhrase(200), readable |-> FALSE]),
      Ok([status |-> 404, statusText |-> ReasonPhrase(404), readable |-> TRUE]),
      Err("TypeError", "Failed to fetch") }

\* response.blob()
ResponseBlob(response) ==
    IF ~response.readable THEN Err("TypeError", "Failed to fetch") ELSE Ok("image/png")

\* Lines 251-255: the blob of the image, or the Error that reaches the catch
\* clause.
DownloadedBlob(imageFetch) ==
    IF ~imageFetch.ok THEN imageFetch
    ELSE IF ~ResponseOk(imageFetch.v)
    THEN Err("Error", "Failed to fetch image (" \o NatToString(imageFetch.v.status)
                      \o " " \o imageFetch.v.statusText \o ")")
    ELSE ResponseBlob(imageFetch.v)

\* URL.createObjectURL(blob), for the blob fetched from url.
CreateObjectURL(url) == Str("blob:" \o url.s)

\* Line 280: the message the catch clause of the download displays.
DownloadFailure(e) == Str("Download failed: " \o e.message)

(***************************************************************************)
(* The prompt helpers (applyExamplePrompt, applyStylePreset)               *)
(***************************************************************************)
\* The first of EXAMPLE_PROMPTS (lines 74-80).
ExamplePrompts == { "Astronaut riding a horse on the moon, detailed, high resolution" }

\* The presets of this model, of those of lines 298-307.
StylePresets == {"none", "photo"}

\* Lines 297-308: the keywords of a preset.
stylePromptSuffix(preset) ==
    CASE preset = "photo" ->
            ", high resolution photograph, photorealistic, detailed, sharp focus, 8k"
      [] OTHER -> ""

styleNegativePrefix(preset) ==
    CASE preset = "photo" ->
            "drawing, painting, illustration, sketch, cartoon, anime, manga, render, CGI, 3d, watermark, text, signature"
      [] OTHER -> ""

\* replace(/,\s*$/, ''), over the prompts of this model.
WithoutTrailingComma(s) ==
    CASE s = "a cat," -> "a cat"
      [] OTHER -> s

\* The prompts of this model before any preset is applied to them.
PlainPrompts ==
    { WithoutTrailingComma(Trim(p)) : p \in Prompts \cup ExamplePrompts \cup {"a cat, "} }

\* s.includes(part) and s.startsWith(part), for a non-empty part, over the
\* prompts of this model: the keywords of a preset occur where a preset
\* has put them.
Includes(s, part) == \E plain \in PlainPrompts : s = plain \o part

StartsWith(s, part) == s = part \/ \E n \in NegativePrompts : s = part \o ", " \o n

\* Lines 310-313: the prompt after a preset other than 'none'.
StyledPrompt(currentPrompt, suffix) ==
    LET cleanedPrompt == WithoutTrailingComma(Trim(currentPrompt))
    IN IF Includes(cleanedPrompt, suffix) THEN cleanedPrompt ELSE cleanedPrompt \o suffix

\* Lines 314-318: the negative prompt after a preset other than 'none'.
StyledNegative(currentNegative, prefix) ==
    IF Trim(currentNegative) = "" THEN prefix
    ELSE IF StartsWith(currentNegative, prefix) /\ prefix # "" THEN currentNegative
    ELSE prefix \o (IF prefix # "" /\ currentNegative # "" THEN ", " ELSE "")
                \o currentNegative

(***************************************************************************)
(* The path between the Composer and the Gateway                           *)
(***************************************************************************)
\* What the framework sends for a run of POST: its Response, or its own
\* plain 500 page when an exception leaves the handler.
HttpResponseOf(result) ==
    IF result.kind = "return" THEN result.response
    ELSE [status |-> 500, contentType |-> "text/plain",
          body |-> RawText("Internal Server Error")]

\* The Response the browser's fetch resolves with.
BrowserResponse(response) ==
    [status |-> response.status, statusText |-> ReasonPhrase(response.status),
     contentType |-> Str(response.contentType), body |-> response.body,
     readable |-> TRUE, bodyUsed |-> FALSE]

\* A response that never reached the route: the hosting platform's own page.
PlatformErrorPage ==
    [status |-> 502, contentType |-> "text/html", body |-> RawText("<html>Bad Gateway</html>")]

\* How the fetch of a generation request can settle: with what the Gateway
\* answers for some behaviour of the provider, with the platform's page, or
\* with a network failure.
FetchSettlements(body, behaviours) ==
    { Ok(browserResponse) :
        browserResponse \in
            { BrowserResponse(response) :
                response \in { HttpResponseOf(result) :
                                 result \in { POST([body |-> body], pb) : pb \in behaviours } } } }
    \cup { Ok(BrowserResponse(PlatformErrorPage)), Err("TypeError", "Failed to fetch") }

(***************************************************************************)
(* Actions                                                                 *)
(***************************************************************************)
NoInvocation == [stage |-> "idle"]

NoHandler == [op |-> "none"]

\* The module of the route is loaded: its constants read process.env
\* (lines 6-8).
LoadModule(e) ==
    /\ env = e
    /\ FRIENDLI_API_TOKEN = e.FRIENDLI_API_TOKEN
    /\ FRIENDLI_API_ENDPOINT = e.FRIENDLI_API_ENDPOINT
    /\ gw = NoInvocation
    /\ served = [invocations |-> 0, calls |-> << >>]

\* The page is mounted: the initial React state (lines 85-103).
MountPage ==
    /\ prompt = ""
    /\ negativePrompt = ""
    /\ resolution = DEFAULT_RESOLUTION
    /\ steps = DEFAULT_STEPS
    /\ guidanceScale = DEFAULT_GUIDANCE_SCALE
    /\ generatedImageUrl = Null
    /\ isLoading = FALSE
    /\ error = Null
    /\ lastGeneratedPrompt = Null
    /\ generationHistory = << >>
    /\ showHistory = FALSE
    /\ currentBlobUrl = Null
    /\ stylePreset = "none"
    /\ showSuggestions = FALSE
    /\ now = 0
    /\ pending = {}
    /\ downloading = << >>
    /\ last = NoHandler

\* The process configuration changes while the module stays loaded:
\* process.env[name] becomes value.  The module's constants (lines 6-8) keep
\* what they read.
ChangeEnvironment(name, value) ==
    /\ gw.stage = "idle"
    /\ env[name] # value
    /\ env' = [env EXCEPT ![name] = value]
    /\ UNCHANGED << FRIENDLI_API_TOKEN, FRIENDLI_API_ENDPOINT, gw, served, composerVars >>

\* A request of any HTTP client reaches the route; pb is what the provider
\* will do with the call, should the handler make it.
GatewayReceive(body, pb) ==
    /\ gw.stage = "idle"
    /\ gw' = [stage |-> "received", request |-> [body |-> body], provider |-> pb]
    /\ UNCHANGED << env, FRIENDLI_API_TOKEN, FRIENDLI_API_ENDPOINT, served, composerVars >>

\* The handler runs on the request, to its end.
GatewayRun ==
    /\ gw.stage = "received"
    /\ \E result \in {POST(gw.request, gw.provider)} :
          /\ gw' = [stage |-> "returned", request |-> gw.request, provider |-> gw.provider,
                    result |-> result]
          /\ served' = [invocations |-> served.invocations + 1,
                        calls |-> served.calls \o result.outbound]
    /\ UNCHANGED << env, FRIENDLI_API_TOKEN, FRIENDLI_API_ENDPOINT, composerVars >>

\* The response is with the caller; the route waits for the next request.
GatewayDone ==
    /\ gw.stage = "returned"
    /\ gw' = NoInvocation
    /\ UNCHANGED << env, FRIENDLI_API_TOKEN, FRIENDLI_API_ENDPOINT, served, composerVars >>

\* onChange of the prompt textarea (line 371).
SetPrompt(p) ==
    /\ prompt' = p
    /\ last' = [op |-> "setPrompt"]
    /\ UNCHANGED << negativePrompt, resolution, steps, guidanceScale, resultVars,
                    now, pending, gatewayVars, sessionVars >>

\* onChange of the negative prompt textarea (line 428).
SetNegativePrompt(n) ==
    /\ negativePrompt' = n
    /\ last' = [op |-> "setNegativePrompt"]
    /\ UNCHANGED << prompt, resolution, steps, guidanceScale, resultVars,
                    now, pending, gatewayVars, sessionVars >>

\* onValueChange of the resolution selector (line 420).
SetResolution(r) ==
    /\ resolution' = r
    /\ last' = [op |-> "setResolution"]
    /\ UNCHANGED << prompt, negativePrompt, steps, guidanceScale, resultVars,
                    now, pending, gatewayVars, sessionVars >>

\* onValueChange of the steps slider (line 437).
SetSteps(n) ==
    /\ steps' = n
    /\ last' = [op |-> "setSteps"]
    /\ UNCHANGED << prompt, negativePrompt, resolution, guidanceScale, resultVars,
                    now, pending, gatewayVars, sessionVars >>

\* onValueChange of the guidance slider (line 439).
SetGuidanceScale(g) ==
    /\ guidanceScale' = g
    /\ last' = [op |-> "setGuidanceScale"]
    /\ UNCHANGED << prompt, negativePrompt, resolution, steps, resultVars,
                    now, pending, gatewayVars, sessionVars >>

\* handleGenerateClick without a prompt (lines 135-138).
GenerateWithoutPrompt ==
    /\ PromptIsBlank(prompt)
    /\ error' = Str("Please enter a prompt to generate an image.")
    /\ last' = [op |-> "handleGenerateClick", issued |-> {}]
    /\ UNCHANGED << formVars, generatedImageUrl, isLoading, lastGeneratedPrompt,
                    generationHistory, showHistory, now, pending, gatewayVars, sessionVars >>

\* The start of a generation that returns at once while the in-flight flag
\* is set.
GenerateStartUnlessLoading ==
    /\ ~PromptIsBlank(prompt)
    /\ IF isLoading
       THEN /\ last' = [op |-> "handleGenerateClick", issued |-> {}]
            /\ UNCHANGED << formVars, resultVars, now, pending, gatewayVars, sessionVars >>
       ELSE /\ isLoading' = TRUE
            /\ error' = Null
            /\ generatedImageUrl' = Null
            /\ currentBlobUrl' = RevokedBlobUrl(currentBlobUrl)
            /\ lastGeneratedPrompt' = Null
            /\ now' = now + 1
            /\ LET issued == [timestamp |-> now + 1, prompt |-> prompt,
                              body |-> JSONstringify(
                                          PayloadForApiRoute(prompt, negativePrompt,
                                                             resolution, steps,
                                                             guidanceScale))]
               IN /\ pending' = pending \cup {issued}
                  /\ last' = [op |-> "handleGenerateClick", issued |-> {issued}]
            /\ UNCHANGED << formVars, generationHistory, showHistory, gatewayVars,
                            stylePreset, showSuggestions, downloading >>

\* The start of a generation that leaves the displayed image in place.
GenerateStartKeepingImage ==
    /\ ~PromptIsBlank(prompt)
    /\ isLoading' = TRUE
    /\ error' = Null
    /\ lastGeneratedPrompt' = Null
    /\ currentBlobUrl' = RevokedBlobUrl(currentBlobUrl)
    /\ now' = now + 1
    /\ LET issued == [timestamp |-> now + 1, prompt |-> prompt,
                      body |-> JSONstringify(
                                  PayloadForApiRoute(prompt, negativePrompt, resolution,
                                                     steps, guidanceScale))]
       IN /\ pending' = pending \cup {issued}
          /\ last' = [op |-> "handleGenerateClick", issued |-> {issued}]
    /\ UNCHANGED << formVars, generatedImageUrl, generationHistory, showHistory,
                    gatewayVars,
                    stylePreset, showSuggestions, downloading >>

\* handleGenerateClick with a prompt, up to the await of the fetch
\* (lines 140-183).
GenerateStart ==
    /\ ~PromptIsBlank(prompt)
    /\ isLoading' = TRUE
    /\ error' = Null
    /\ generatedImageUrl' = Null
    /\ currentBlobUrl' = RevokedBlobUrl(currentBlobUrl)
    /\ lastGeneratedPrompt' = Null
    /\ now' = now + 1
    /\ LET issued == [timestamp |-> now + 1, prompt |-> prompt,
                      body |-> JSONstringify(
                                  PayloadForApiRoute(prompt, negativePrompt, resolution,
                                                     steps, guidanceScale))]
       IN /\ pending' = pending \cup {issued}
          /\ last' = [op |-> "handleGenerateClick", issued |-> {issued}]
    /\ UNCHANGED << formVars, generationHistory, showHistory, gatewayVars,
                    stylePreset, showSuggestions, downloading >>

handleGenerateClick == GenerateWithoutPrompt \/ GenerateStart

\* The generate button that is disabled on a blank prompt only.
ButtonDisabledOnBlankOnly == PromptIsBlank(prompt)

\* Line 452: disabled={isLoading || !prompt.trim()}, in a render that shows
\* the current state.
GenerateButtonDisabled == isLoading \/ PromptIsBlank(prompt)

\* A click on the generate button as rendered from the current state
\* (lines 449-456): the button is enabled, so the prompt is not blank and
\* the handler runs up to the await of the fetch.
ClickGenerate ==
    /\ ~GenerateButtonDisabled
    /\ GenerateStart

\* handleGenerateClick from the settled fetch to its end (lines 186-224).
GenerateSettle(r, fetched) ==
    /\ r \in pending
    /\ \E outcome \in {InterpretResponse(fetched)} :
          /\ IF outcome.ok
             THEN /\ generatedImageUrl' = outcome.v
                  /\ lastGeneratedPrompt' = Str(PromptOfRequest(r, prompt))
                  /\ generationHistory' =
                        HistoryWith([imageUrl |-> outcome.v,
                                     prompt |-> PromptOfRequest(r, prompt),
                                     timestamp |-> r.timestamp], generationHistory)
                  /\ error' = error
             ELSE /\ error' = CaughtMessage(outcome.e)
                  /\ generatedImageUrl' = Null
                  /\ UNCHANGED << lastGeneratedPrompt, generationHistory >>
          /\ isLoading' = LoadingAfterSettle(outcome, isLoading)
          /\ last' = [op |-> "generation settled", request |-> r, fetched |-> fetched,
                      ok |-> outcome.ok, previousHistory |-> generationHistory]
    /\ pending' = pending \ {r}
    /\ UNCHANGED << formVars, showHistory, now, gatewayVars, sessionVars >>

\* A load from the history that leaves the prompt-of-record as it is.
loadFromHistoryKeepingRecord(i) ==
    /\ i \in 1..Len(generationHistory)
    /\ prompt' = generationHistory[i].prompt
    /\ generatedImageUrl' = generationHistory[i].imageUrl
    /\ error' = Null
    /\ showHistory' = FALSE
    /\ last' = [op |-> "loadFromHistory", item |-> i]
    /\ UNCHANGED << negativePrompt, resolution, steps, guidanceScale, isLoading,
                    lastGeneratedPrompt, generationHistory, now, pending, gatewayVars,
                    sessionVars >>

\* loadFromHistory (lines 325-331), for the i-th item of the history.
loadFromHistory(i) ==
    /\ i \in 1..Len(generationHistory)
    /\ prompt' = generationHistory[i].prompt
    /\ generatedImageUrl' = generationHistory[i].imageUrl
    /\ lastGeneratedPrompt' = Str(generationHistory[i].prompt)
    /\ error' = Null
    /\ showHistory' = FALSE
    /\ last' = [op |-> "loadFromHistory", item |-> i]
    /\ UNCHANGED << negativePrompt, resolution, steps, guidanceScale, isLoading,
                    generationHistory, now, pending, gatewayVars, sessionVars >>

\* The history button (line 489).
ToggleHistory ==
    /\ Len(generationHistory) # 0
    /\ showHistory' = ~showHistory
    /\ last' = [op |-> "toggleHistory"]
    /\ UNCHANGED << formVars, generatedImageUrl, isLoading, error, lastGeneratedPrompt,
                    generationHistory, now, pending, gatewayVars, sessionVars >>

\* The dismiss button of the error card (line 473).
DismissError ==
    /\ error # Null
    /\ error' = Null
    /\ last' = [op |-> "dismissError"]
    /\ UNCHANGED << formVars, generatedImageUrl, isLoading, lastGeneratedPrompt,
                    generationHistory, showHistory, now, pending, gatewayVars, sessionVars >>


\* handleDownloadImage without a displayed image (line 238).
DownloadWithoutImage ==
    /\ ~Truthy(generatedImageUrl)
    /\ last' = [op |-> "handleDownloadImage", fetching |-> {}]
    /\ UNCHANGED << formVars, resultVars, now, pending, gatewayVars, sessionVars >>

\* handleDownloadImage with a displayed image, up to the await of the fetch
\* (lines 240-251).
DownloadStart ==
    /\ Truthy(generatedImageUrl)
    /\ currentBlobUrl' = RevokedBlobUrl(currentBlobUrl)
    /\ isLoading' = TRUE
    /\ error' = Null
    /\ downloading' = Append(downloading, [url |-> generatedImageUrl,
                                           prompt |-> lastGeneratedPrompt])
    /\ last' = [op |-> "handleDownloadImage", fetching |-> {generatedImageUrl}]
    /\ UNCHANGED << formVars, generatedImageUrl, lastGeneratedPrompt, generationHistory,
                    showHistory, now, pending, gatewayVars, stylePreset, showSuggestions >>

handleDownloadImage == DownloadWithoutImage \/ DownloadStart

\* The download button that is disabled without a displayed image only.
DownloadDisabledWithoutImageOnly == ~Truthy(generatedImageUrl)

\* Line 535: disabled={!generatedImageUrl || isLoading}, on a button that
\* line 530 renders only with a displayed image and nothing in flight.
DownloadButtonDisabled == ~Truthy(generatedImageUrl) \/ isLoading

\* A click on the download button as rendered from the current state.
ClickDownload ==
    /\ ~DownloadButtonDisabled
    /\ DownloadStart

\* The end of a download that treats a failure as a failed generation.
DownloadSettleClearingImage(i, imageFetch) ==
    /\ i \in 1..Len(downloading)
    /\ \E blob \in {DownloadedBlob(imageFetch)} :
          /\ IF blob.ok
             THEN /\ currentBlobUrl' = CreateObjectURL(downloading[i].url)
                  /\ UNCHANGED << error, generatedImageUrl >>
             ELSE /\ error' = DownloadFailure(blob.e)
                  /\ generatedImageUrl' = Null
                  /\ UNCHANGED currentBlobUrl
          /\ last' = [op |-> "download settled", download |-> downloading[i],
                      fetched |-> imageFetch, saved |-> blob.ok]
    /\ isLoading' = FALSE
    /\ downloading' = [k \in 1..(Len(downloading) - 1) |->
                          IF k < i THEN downloading[k] ELSE downloading[k + 1]]
    /\ UNCHANGED << formVars, lastGeneratedPrompt, generationHistory,
                    showHistory, now, pending, gatewayVars, stylePreset, showSuggestions >>

\* handleDownloadImage from the settled fetch of the image to its end
\* (lines 252-283).  The file it saves (lines 261-274) is named after the
\* prompt-of-record of the render that started the download.
DownloadSettle(i, imageFetch) ==
    /\ i \in 1..Len(downloading)
    /\ \E blob \in {DownloadedBlob(imageFetch)} :
          /\ IF blob.ok
             THEN /\ currentBlobUrl' = CreateObjectURL(downloading[i].url)
                  /\ UNCHANGED error
             ELSE /\ error' = DownloadFailure(blob.e)
                  /\ UNCHANGED currentBlobUrl
          /\ last' = [op |-> "download settled", download |-> downloading[i],
                      fetched |-> imageFetch, saved |-> blob.ok]
    /\ isLoading' = FALSE
    /\ downloading' = [k \in 1..(Len(downloading) - 1) |->
                          IF k < i THEN downloading[k] ELSE downloading[k + 1]]
    /\ UNCHANGED << formVars, generatedImageUrl, lastGeneratedPrompt, generationHistory,
                    showHistory, now, pending, gatewayVars, stylePreset, showSuggestions >>

\* applyExamplePrompt (lines 287-291).
applyExamplePrompt(examplePromptText) ==
    /\ prompt' = examplePromptText
    /\ showSuggestions' = FALSE
    /\ error' = Null
    /\ last' = [op |-> "applyExamplePrompt"]
    /\ UNCHANGED << negativePrompt, resolution, steps, guidanceScale, generatedImageUrl,
                    isLoading, lastGeneratedPrompt, generationHistory, showHistory,
                    now, pending, gatewayVars, currentBlobUrl, stylePreset, downloading >>

\* The suggestions button (line 370).
ToggleSuggestions ==
    /\ showSuggestions' = ~showSuggestions
    /\ last' = [op |-> "toggleSuggestions"]
    /\ UNCHANGED << formVars, resultVars, now, pending, gatewayVars, currentBlobUrl,
                    stylePreset, downloading >>

\* applyStylePreset (lines 294-322).
applyStylePreset(preset) ==
    /\ IF preset # "none"
       THEN /\ prompt' = StyledPrompt(prompt, stylePromptSuffix(preset))
            /\ negativePrompt' = StyledNegative(negativePrompt, styleNegativePrefix(preset))
       ELSE UNCHANGED << prompt, negativePrompt >>
    /\ stylePreset' = preset
    /\ error' = Null
    /\ last' = [op |-> "applyStylePreset"]
    /\ UNCHANGED << resolution, steps, guidanceScale, generatedImageUrl, isLoading,
                    lastGeneratedPrompt, generationHistory, showHistory, now, pending,
                    gatewayVars, currentBlobUrl, showSuggestions, downloading >>

(***************************************************************************)
(* Specifications                                                          *)
(***************************************************************************)
\* Bounds of the model.
MaxGenerations == 3

MaxPending == 2

\* The Gateway alone: any configuration, then the first invocation after
\* the module is loaded, by any client with any behaviour of the provider.
InitGateway == (\E e \in Environments : LoadModule(e)) /\ MountPage

NextGateway ==
    \/ /\ served.invocations = 0
       /\ \E body \in ClientBodies, pb \in ProviderBehaviours : GatewayReceive(body, pb)
    \/ GatewayRun
    \/ GatewayDone

SpecGateway == InitGateway /\ [][NextGateway]_vars

\* The page in front of the Gateway: the handlers of the page in any
\* order, each generation request settled by what the Gateway answers.
\* The provider succeeds with an image, succeeds without one, answers with
\* another content type, refuses the call, or cannot be reached.
ComposerProviderBehaviours ==
    { [fetch |-> "reject"] }
    \cup { [fetch |-> "resolve", status |-> 200, statusText |-> ReasonPhrase(200),
            contentType |-> ct, body |-> b, readable |-> TRUE] :
              ct \in {Str("application/json")},
              b \in {JsonText(ImageBody("https://x/img.png"), TRUE),
                     JsonText(Obj([data |-> Arr(<< >>)]), TRUE)} }
    \cup { [fetch |-> "resolve", status |-> 200, statusText |-> ReasonPhrase(200),
            contentType |-> Str("text/html"), body |-> RawText("<html>Bad Gateway</html>"),
            readable |-> TRUE],
           [fetch |-> "resolve", status |-> 429, statusText |-> ReasonPhrase(429),
            contentType |-> Str("application/json"),
            body |-> JsonText(Obj([error |-> Obj([message |-> Str("rate limited")])]), TRUE),
            readable |-> TRUE] }

Init == LoadModule(FullEnvironment) /\ MountPage

Next ==
    \/ \E p \in Prompts : SetPrompt(p)
    \/ GenerateWithoutPrompt
    \/ now < MaxGenerations /\ Cardinality(pending) < MaxPending /\ GenerateStart
    \/ \E r \in pending :
          \E fetched \in FetchSettlements(r.body, ComposerProviderBehaviours) :
              GenerateSettle(r, fetched)
    \/ \E i \in 1..Len(generationHistory) : loadFromHistory(i)
    \/ DismissError

Spec == Init /\ [][Next]_vars

\* A fetch that nothing answers is given up by the network stack: it
\* rejects.
FetchGivesUp == \E r \in pending : GenerateSettle(r, Err("TypeError", "Failed to fetch"))

\* Every fetch settles in the end: it resolves, or else it rejects.
FairSpec == Spec /\ WF_vars(FetchGivesUp)

\* The history over a long run of generations: the user types a prompt and
\* generates, one generation after the other; the provider returns an image
\* or refuses.
MaxHistoryGenerations == 12

HistoryProviderBehaviours ==
    { [fetch |-> "resolve", status |-> 200, statusText |-> ReasonPhrase(200),
       contentType |-> Str("application/json"),
       body |-> JsonText(ImageBody("https://x/img.png"), TRUE), readable |-> TRUE],
      [fetch |-> "resolve", status |-> 429, statusText |-> ReasonPhrase(429),
       contentType |-> Str("application/json"),
       body |-> JsonText(Obj([error |-> Obj([message |-> Str("rate limited")])]), TRUE),
       readable |-> TRUE] }

NextHistory ==
    \/ SetPrompt("a red cube")
    \/ now < MaxHistoryGenerations /\ pending = {} /\ GenerateStart
    \/ \E r \in pending :
          \E fetched \in FetchSettlements(r.body, HistoryProviderBehaviours) :
              GenerateSettle(r, fetched)

SpecHistory == Init /\ [][NextHistory]_vars

\* The provider refuses the call: 429 with { error: { message } }.
RateLimitedProvider ==
    [fetch |-> "resolve", status |-> 429, statusText |-> ReasonPhrase(429),
     contentType |-> Str("application/json"),
     body |-> JsonText(Obj([error |-> Obj([message |-> Str("rate limited")])]), TRUE),
     readable |-> TRUE]

\* The Gateway over several invocations: the same clients and the same
\* provider behaviours come again.
MaxInvocations == 3

RepeatEnvironments ==
    { FullEnvironment, [FullEnvironment EXCEPT !.FRIENDLI_ENDPOINT_ID = Undefined] }

RepeatBodies ==
    { JsonText(RedCubePayload, TRUE), JsonText(Str("a red cube"), TRUE),
      JsonText(Null, TRUE), RawText("{prompt:") }

RepeatProviderBehaviours ==
    { [fetch |-> "reject"], RateLimitedProvider,
      [fetch |-> "resolve", status |-> 200, statusText |-> ReasonPhrase(200),
       contentType |-> Str("application/json"),
       body |-> JsonText(ImageBody("https://x/img.png"), TRUE), readable |-> TRUE],
      [fetch |-> "resolve", status |-> 502, statusText |-> ReasonPhrase(502),
       contentType |-> Str("text/html"), body |-> RawText("<html>Bad Gateway</html>"),
       readable |-> FALSE] }

InitRepeat == (\E e \in RepeatEnvironments : LoadModule(e)) /\ MountPage

NextRepeat ==
    \/ /\ served.invocations < MaxInvocations
       /\ \E body \in RepeatBodies, pb \in RepeatProviderBehaviours : GatewayReceive(body, pb)
    \/ GatewayRun
    \/ GatewayDone

SpecRepeat == InitRepeat /\ [][NextRepeat]_vars

\* The page in front of a provider whose successful answers may lack the
\* image URL: no data, no first element, no url, an empty url, null.
MalformedBodies ==
    { JsonText(EmptyObj, TRUE),
      JsonText(Obj([data |-> Arr(<< >>)]), TRUE),
      JsonText(Obj([data |-> Arr(<< EmptyObj >>)]), TRUE),
      JsonText(Obj([data |-> Arr(<< Obj([url |-> Str("")]) >>)]), TRUE),
      JsonText(Obj([data |-> Str("https://x/img.png")]), TRUE),
      JsonText(Null, TRUE) }

MalformedProviderBehaviours ==
    { [fetch |-> "resolve", status |-> 200, statusText |-> ReasonPhrase(200),
       contentType |-> Str("application/json"), body |-> b, readable |-> TRUE] :
         b \in MalformedBodies \cup {JsonText(ImageBody("https://x/img.png"), TRUE)} }

NextMalformed ==
    \/ \E p \in {"a red cube", " a cat "} : SetPrompt(p)
    \/ now < MaxGenerations /\ Cardinality(pending) < MaxPending /\ GenerateStart
    \/ \E r \in pending :
          \E fetched \in FetchSettlements(r.body, MalformedProviderBehaviours) :
              GenerateSettle(r, fetched)

SpecMalformed == Init /\ [][NextMalformed]_vars

\* The form of the page: the user sets its five fields in any order and
\* generates; the provider cannot be reached.
MaxFormGenerations == 1

NextForm ==
    \/ \E p \in {"a red cube", " a cat "} : SetPrompt(p)
    \/ \E n \in NegativePrompts : SetNegativePrompt(n)
    \/ \E r \in Resolutions : SetResolution(r)
    \/ \E n \in StepValues : SetSteps(n)
    \/ \E g \in GuidanceValues : SetGuidanceScale(g)
    \/ now < MaxFormGenerations /\ pending = {} /\ GenerateStart
    \/ \E r \in pending :
          \E fetched \in FetchSettlements(r.body, {[fetch |-> "reject"]}) :
              GenerateSettle(r, fetched)

SpecForm == Init /\ [][NextForm]_vars

\* The Gateway in a process whose configuration changes between the
\* invocations.
NextReconfigure ==
    \/ \E value \in TokenValues : ChangeEnvironment("FRIENDLI_API_TOKEN", value)
    \/ \E value \in EndpointValues : ChangeEnvironment("FRIENDLI_API_ENDPOINT", value)
    \/ \E value \in EndpointIdValues : ChangeEnvironment("FRIENDLI_ENDPOINT_ID", value)
    \/ /\ served.invocations < MaxInvocations
       /\ \E body \in {JsonText(RedCubePayload, TRUE)}, pb \in RepeatProviderBehaviours :
             GatewayReceive(body, pb)
    \/ GatewayRun
    \/ GatewayDone

SpecReconfigure == InitGateway /\ [][NextReconfigure]_vars

\* The page whose generate button is rendered from the current state at
\* every click: the page is rendered again between any two handlers.
NextRendered ==
    \/ \E p \in Prompts : SetPrompt(p)
    \/ now < MaxGenerations /\ ClickGenerate
    \/ \E r \in pending :
          \E fetched \in FetchSettlements(r.body, ComposerProviderBehaviours) :
              GenerateSettle(r, fetched)
    \/ \E i \in 1..Len(generationHistory) : loadFromHistory(i)
    \/ DismissError

SpecRendered == Init /\ [][NextRendered]_vars

\* A page session that has gone on for a while: ten generations have
\* succeeded, one after the other, on the prompt "a red cube", so that the
\* history is full (a state SpecHistory reaches).  The session then goes on
\* with every handler of the page, for MaxSessionGenerations further
\* generations; a generation may be in flight together with a download, but
\* not with another generation, nor a download with another download.
MaxSessionGenerations == 1

GenerationsBefore == HistoryKept + 1

ImageProvider ==
    [fetch |-> "resolve", status |-> 200, statusText |-> ReasonPhrase(200),
     contentType |-> Str("application/json"),
     body |-> JsonText(ImageBody("https://x/img.png"), TRUE), readable |-> TRUE]

\* The provider answers with another image.
OtherImageProvider ==
    [fetch |-> "resolve", status |-> 200, statusText |-> ReasonPhrase(200),
     contentType |-> Str("application/json"),
     body |-> JsonText(ImageBody("https://x/other.png"), TRUE), readable |-> TRUE]

RedCubeRequest(timestamp) ==
    [timestamp |-> timestamp, prompt |-> "a red cube",
     body |-> JSONstringify(PayloadForApiRoute("a red cube", "", DEFAULT_RESOLUTION,
                                               DEFAULT_STEPS, DEFAULT_GUIDANCE_SCALE))]

RedCubeHistory(n) ==
    [i \in 1..n |-> [imageUrl |-> Str("https://x/img.png"), prompt |-> "a red cube",
                     timestamp |-> n + 1 - i]]

AfterTenGenerations ==
    /\ prompt = "a red cube"
    /\ negativePrompt = ""
    /\ resolution = DEFAULT_RESOLUTION
    /\ steps = DEFAULT_STEPS
    /\ guidanceScale = DEFAULT_GUIDANCE_SCALE
    /\ generatedImageUrl = Str("https://x/img.png")
    /\ isLoading = FALSE
    /\ error = Null
    /\ lastGeneratedPrompt = Str("a red cube")
    /\ generationHistory = RedCubeHistory(GenerationsBefore)
    /\ showHistory = FALSE
    /\ currentBlobUrl = Null
    /\ stylePreset = "none"
    /\ showSuggestions = FALSE
    /\ now = GenerationsBefore
    /\ pending = {}
    /\ downloading = << >>
    /\ last = [op |-> "generation settled",
               request |-> RedCubeRequest(GenerationsBefore),
               fetched |-> Ok(BrowserResponse(HttpResponseOf(
                                 POST([body |-> RedCubeRequest(GenerationsBefore).body],
                                      ImageProvider)))),
               ok |-> TRUE,
               previousHistory |-> RedCubeHistory(GenerationsBefore - 1)]

InitSession == LoadModule(FullEnvironment) /\ AfterTenGenerations

SessionPrompts == {"", "a cat, "}

\* Every handler of the page, whatever the page shows.
NextSession ==
    \/ \E p \in SessionPrompts : SetPrompt(p)
    \/ \E text \in ExamplePrompts : applyExamplePrompt(text)
    \/ \E preset \in StylePresets : applyStylePreset(preset)
    \/ GenerateWithoutPrompt
    \/ /\ now < GenerationsBefore + MaxSessionGenerations
       /\ pending = {}
       /\ GenerateStart
    \/ \E r \in pending :
          \E fetched \in FetchSettlements(r.body, {ImageProvider}) :
              GenerateSettle(r, fetched)
    \/ DownloadWithoutImage
    \/ downloading = << >> /\ DownloadStart
    \/ \E i \in 1..Len(downloading) :
          \E imageFetch \in ImageFetches : DownloadSettle(i, imageFetch)
    \/ \E i \in 1..Len(generationHistory) : loadFromHistory(i)
    \/ DismissError

SpecSession == InitSession /\ [][NextSession]_vars

\* The same session on a page whose generate and download buttons are
\* rendered from the current state at every click.
NextSessionRendered ==
    \/ \E p \in SessionPrompts : SetPrompt(p)
    \/ \E text \in ExamplePrompts : applyExamplePrompt(text)
    \/ \E preset \in StylePresets : applyStylePreset(preset)
    \/ now < GenerationsBefore + MaxSessionGenerations /\ ClickGenerate
    \/ \E r \in pending :
          \E fetched \in FetchSettlements(r.body, {ImageProvider, OtherImageProvider}) :
              GenerateSettle(r, fetched)
    \/ ClickDownload
    \/ \E i \in 1..Len(downloading) :
          \E imageFetch \in ImageFetches : DownloadSettle(i, imageFetch)
    \/ \E i \in 1..Len(generationHistory) : loadFromHistory(i)
    \/ DismissError

SpecSessionRendered == InitSession /\ [][NextSessionRendered]_vars

(***************************************************************************)
(* Properties of the Gateway (checked under SpecGateway)                   *)
(***************************************************************************)
Returned == gw.stage = "returned"

\* A configuration value is absent when it is not set or set to nothing.
Absent(v) == v = Undefined \/ v = Str("")

ConfigurationComplete ==
    /\ ~Absent(env.FRIENDLI_API_TOKEN)
    /\ ~Absent(env.FRIENDLI_API_ENDPOINT)
    /\ ~Absent(env.FRIENDLI_ENDPOINT_ID)

\* The diagnostic for the first missing value, in the order token,
\* endpoint URL, endpoint id.
MissingValueMessage ==
    IF Absent(env.FRIENDLI_API_TOKEN) THEN "Server configuration error: API token missing."
    ELSE IF Absent(env.FRIENDLI_API_ENDPOINT)
    THEN "Server configuration error: API endpoint missing."
    ELSE "Server configuration error: Endpoint ID missing."

\* The response is a JSON document { error: <string> } and nothing else.
IsErrorBody(body) ==
    /\ body.kind = "json"
    /\ body.value.t = "object"
    /\ DOMAIN body.value.o = {"error"}
    /\ body.value.o["error"].t = "string"

\* C1: an invocation with one of the three configuration values absent
\* returns status 500 with an { error } body naming the first missing value
\* and makes no call to the provider, whatever the request body is.
C1_MissingConfigFailsClosed ==
    (Returned /\ ~ConfigurationComplete) =>
        /\ gw.result.kind = "return"
        /\ gw.result.response.status = 500
        /\ gw.result.response.body = JsonText(Obj([error |-> Str(MissingValueMessage)]), TRUE)
        /\ gw.result.outbound = << >>

\* C1's case: only the endpoint id is missing, the request is the
\* Composer's and the provider would have answered.
C1_Witness ==
    /\ Returned
    /\ ~Absent(env.FRIENDLI_API_TOKEN) /\ ~Absent(env.FRIENDLI_API_ENDPOINT)
    /\ Absent(env.FRIENDLI_ENDPOINT_ID)
    /\ gw.request.body = JsonText(RedCubePayload, TRUE)
    /\ gw.provider.fetch = "resolve"
    /\ gw.result.response.status = 500
    /\ gw.result.outbound = << >>


\* The handler reached the provider, and the provider answered.
ProviderAnswered ==
    /\ Returned
    /\ gw.result.outbound # << >>
    /\ gw.provider.fetch = "resolve"

SuccessStatus(status) == status \in 200..299

JsonContentTypes == {Str("application/json"), Str("application/json; charset=utf-8")}

\* The provider's body arrives whole and is a JSON document.
ProviderBodyParses == gw.provider.readable /\ gw.provider.body.kind = "json"

\* A field of a JSON document that is present and not empty.
Available(v, k) == v.t = "object" /\ k \in DOMAIN v.o /\ Truthy(v.o[k])

\* The error string the priority order of C3 names for a provider response:
\* detail, error.message, error, the raw response text, the status text.
ClaimedErrorDetails(pb) ==
    LET json == IF pb.readable /\ pb.body.kind = "json" THEN pb.body.value ELSE Undefined
    IN IF Available(json, "detail") THEN TemplateString(json.o["detail"])
       ELSE IF Available(json, "error") /\ Available(json.o["error"], "message")
       THEN TemplateString(json.o["error"].o["message"])
       ELSE IF Available(json, "error") THEN TemplateString(json.o["error"])
       ELSE IF pb.readable /\ TextToString(pb.body) # "" THEN TextToString(pb.body)
       ELSE pb.statusText

\* C3: for a provider response with a status outside [200,300) the Gateway
\* returns the provider's status, and its error string is the first
\* available of detail, error.message, error, raw response text, status
\* text (behind the prefix "Friendli API Error: ").
C3_ErrorPassThrough ==
    (ProviderAnswered /\ ~SuccessStatus(gw.provider.status)) =>
        /\ gw.result.kind = "return"
        /\ gw.result.response.status = gw.provider.status
        /\ gw.result.response.body =
              JsonText(Obj([error |-> Str("Friendli API Error: "
                                          \o ClaimedErrorDetails(gw.provider))]), TRUE)

\* C4, as claimed: every provider response with a success status and a JSON
\* content type is forwarded with status 200.
C4_AsClaimed ==
    (ProviderAnswered /\ SuccessStatus(gw.provider.status)
       /\ gw.provider.contentType \in JsonContentTypes) =>
        /\ gw.result.response.status = 200
        /\ JSONparse(gw.result.response.body) = JSONparse(gw.provider.body)

\* C4, amended: a provider response with a success status, a JSON content
\* type and a body that arrives whole and parses as JSON is forwarded: the
\* caller gets status 200 and a body that parses to the same JSON value.
C4_ForwardsParsedBody ==
    (ProviderAnswered /\ SuccessStatus(gw.provider.status)
       /\ gw.provider.contentType \in JsonContentTypes /\ ProviderBodyParses) =>
        /\ gw.result.kind = "return"
        /\ gw.result.response.status = 200
        /\ JSONparse(gw.result.response.body) = Ok(gw.provider.body.value)

\* C4's case: a 201 with a charset in the content type and a body that is
\* not written the way JSON.stringify writes it.
C4_Witness ==
    /\ ProviderAnswered
    /\ gw.provider.status = 201
    /\ gw.provider.contentType = Str("application/json; charset=utf-8")
    /\ gw.provider.body = JsonText(ImageBody("https://x/img.png"), FALSE)
    /\ gw.result.response.status = 200

SevenFields ==
    {"prompt", "negative_prompt", "num_inference_steps", "guidance_scale",
     "width", "height", "response_format"}

\* The field k of a JSON document; undefined when it has none.
FieldOf(v, k) == IF v.t = "object" /\ k \in DOMAIN v.o THEN v.o[k] ELSE Undefined

\* C5: the payload of every outbound call is the server's endpoint id as
\* `model` plus the seven client fields as the client sent them, and
\* nothing else of the client's body (not its `model`, not its extras).
C5_ModelIdFromServer ==
    Returned =>
        \A i \in 1..Len(gw.result.outbound) :
            LET sent == JSONparse(gw.result.outbound[i].body).v
                client == gw.request.body.value
            IN /\ sent.t = "object"
               /\ DOMAIN sent.o \subseteq {"model"} \cup SevenFields
               /\ FieldOf(sent, "model") = env.FRIENDLI_ENDPOINT_ID
               /\ \A k \in SevenFields : FieldOf(sent, k) = FieldOf(client, k)

\* C5's case: the client names a model and a seed of its own, and the call
\* to the provider is made.
C5_Witness ==
    /\ Returned
    /\ gw.request.body.kind = "json"
    /\ FieldOf(gw.request.body.value, "model") = Str("ep-attacker")
    /\ FieldOf(gw.request.body.value, "seed") = Num(42)
    /\ Len(gw.result.outbound) = 1
    /\ FieldOf(gw.result.outbound[1].body.value, "model") = ServerModelId

\* An outbound call without its Authorization header.
WithoutAuthorization(call) ==
    [url |-> call.url, method |-> call.method, contentType |-> call.contentType,
     body |-> call.body]

\* C6: the credential goes into the Authorization header of the outbound
\* call and nowhere else: with any other credential in its place, the same
\* request and the same provider behaviour give the caller the same
\* response, and the provider the same call but for that header.
C6_CredentialNotExposed ==
    (Returned /\ ~Absent(FRIENDLI_API_TOKEN)) =>
        \A other \in {t \in TokenValues : ~Absent(t)} :
            LET run == Handler(other, FRIENDLI_API_ENDPOINT, env.FRIENDLI_ENDPOINT_ID,
                               gw.request, gw.provider)
            IN /\ run.kind = gw.result.kind
               /\ HttpResponseOf(run) = HttpResponseOf(gw.result)
               /\ Len(run.outbound) = Len(gw.result.outbound)
               /\ \A i \in 1..Len(gw.result.outbound) :
                    /\ gw.result.outbound[i].authorization
                          = "Bearer " \o FRIENDLI_API_TOKEN.s
                    /\ run.outbound[i].authorization = "Bearer " \o other.s
                    /\ WithoutAuthorization(run.outbound[i])
                          = WithoutAuthorization(gw.result.outbound[i])

\* C6's case: the call carried the credential and failed, and the handler
\* reported the failure to the caller.
C6_Witness ==
    /\ Returned
    /\ FRIENDLI_API_TOKEN = Str("token-B")
    /\ Len(gw.result.outbound) = 1
    /\ gw.result.outbound[1].authorization = "Bearer token-B"
    /\ gw.provider.fetch = "reject"
    /\ gw.result.response.status = 500

\* The cases in which an exception is raised inside the handler: the
\* request body is not JSON or is null, the call to the provider fails, or
\* the body of a successful JSON response cannot be read or parsed.
RequestUnusable ==
    gw.request.body.kind # "json" \/ gw.request.body.value = Null

ExceptionRaised ==
    /\ ConfigurationComplete
    /\ \/ RequestUnusable
       \/ gw.provider.fetch = "reject"
       \/ /\ SuccessStatus(gw.provider.status)
          /\ gw.provider.contentType \in JsonContentTypes
          /\ ~ProviderBodyParses

\* C7: every invocation ends by returning a JSON response; where an
\* exception is raised the response is { error: <string> } with status
\* 500, and a request body that cannot be used reaches no provider.
C7_AlwaysJsonResponse ==
    Returned =>
        /\ gw.result.kind = "return"
        /\ gw.result.response.contentType = "application/json"
        /\ gw.result.response.body.kind = "json"
        /\ ExceptionRaised =>
              /\ gw.result.response.status = 500
              /\ IsErrorBody(gw.result.response.body)
        /\ (ConfigurationComplete /\ RequestUnusable) => gw.result.outbound = << >>

\* C7's case: the request body is not JSON.
C7_Witness ==
    /\ Returned
    /\ ConfigurationComplete
    /\ gw.request.body = RawText("{prompt:")
    /\ gw.result.kind = "return"
    /\ gw.result.response.status = 500
    /\ gw.result.response.body
          = JsonText(Obj([error |-> Str("Unexpected token in JSON")]), TRUE)
    /\ gw.result.outbound = << >>

\* The generic answer of the defensive path.
UnexpectedFormatBody ==
    JsonText(Obj([error |-> Str("Received unexpected response format from Friendli API.")]),
             TRUE)

\* The content types in which the text application/json occurs.
MentionsApplicationJson ==
    {Str("application/json"), Str("application/json; charset=utf-8"),
     Str("application/json-seq")}

\* C11, as claimed: every provider response with a success status and a
\* content type that is not JSON (or none) is answered with status 500 and
\* the generic { error } message.
C11_AsClaimed ==
    (ProviderAnswered /\ SuccessStatus(gw.provider.status)
       /\ gw.provider.contentType \notin JsonContentTypes) =>
        /\ gw.result.kind = "return"
        /\ gw.result.response.status = 500
        /\ gw.result.response.body = UnexpectedFormatBody

\* C11, amended: a provider response with a success status and a content
\* type in which application/json does not occur (or none) is answered with
\* status 500 and an { error } body, never with the provider's body; the
\* message is the generic one when the provider's body can be read to its
\* end, and the message of the read failure when it cannot.
C11_UnexpectedFormatRejected ==
    (ProviderAnswered /\ SuccessStatus(gw.provider.status)
       /\ gw.provider.contentType \notin MentionsApplicationJson) =>
        /\ gw.result.kind = "return"
        /\ gw.result.response.status = 500
        /\ IsErrorBody(gw.result.response.body)
        /\ JSONparse(gw.result.response.body) # JSONparse(gw.provider.body)
        /\ gw.provider.readable => gw.result.response.body = UnexpectedFormatBody
        /\ ~gw.provider.readable =>
              gw.result.response.body = JsonText(Obj([error |-> Str("terminated")]), TRUE)

\* C11's case: a 200 without a content-type header whose body is the JSON
\* of an image.
C11_Witness ==
    /\ ProviderAnswered
    /\ gw.provider.status = 200
    /\ gw.provider.contentType = Null
    /\ gw.provider.body = JsonText(ImageBody("https://x/img.png"), TRUE)
    /\ gw.provider.readable
    /\ gw.result.response.status = 500
    /\ gw.result.response.body = UnexpectedFormatBody

\* The step is a run of the handler on the request received.
GatewayRuns == gw.stage = "received" /\ gw'.stage = "returned"

\* C13, as claimed: every invocation with complete configuration and a
\* request body that parses makes exactly one call to the provider.
C13_AsClaimed ==
    (Returned /\ ConfigurationComplete /\ gw.request.body.kind = "json") =>
        Len(gw.result.outbound) = 1

\* C13, amended: an invocation with complete configuration and a request
\* body that parses to a value other than null makes exactly one call to
\* the provider, whatever the route has handled before and also when the
\* call fails; any other invocation makes none.  The provider has received
\* one call more after each such invocation: nothing is cached, merged or
\* tried again.
C13_OneCallPerInvocation ==
    /\ []((Returned /\ ConfigurationComplete /\ ~RequestUnusable) =>
            Len(gw.result.outbound) = 1)
    /\ [][GatewayRuns =>
            /\ served'.invocations = served.invocations + 1
            /\ Len(served'.calls) = Len(served.calls)
                  + (IF ConfigurationComplete /\ ~RequestUnusable THEN 1 ELSE 0)
            /\ \A i \in 1..Len(served.calls) : served'.calls[i] = served.calls[i]]_vars

\* C13's case: the same GenerationRequest came twice and the provider
\* received the same call twice, the second of which failed.
C13_Witness ==
    /\ Returned
    /\ served.invocations = 2
    /\ Len(served.calls) = 2
    /\ served.calls[1] = served.calls[2]
    /\ gw.request.body = JsonText(RedCubePayload, TRUE)
    /\ FieldOf(served.calls[1].body.value, "prompt") = Str("a red cube")
    /\ gw.provider.fetch = "reject"
    /\ gw.result.response.status = 500

\* C18: every invocation behaves according to the three configuration
\* values as they are in the process configuration when it runs: its
\* response and its call to the provider are those of the handler with
\* these values.
C18_ConfigurationReadAtRequestTime ==
    [][GatewayRuns =>
          gw'.result = Handler(env.FRIENDLI_API_TOKEN, env.FRIENDLI_API_ENDPOINT,
                               env.FRIENDLI_ENDPOINT_ID, gw.request, gw.provider)]_vars


(***************************************************************************)
(* Properties of the Composer (checked under Spec)                         *)
(***************************************************************************)
\* The prompts that are empty or hold blanks only.
BlankPrompts == {"", "  "}

ValidationError == Str("Please enter a prompt to generate an image.")

\* The step is a run of handleGenerateClick.
GenerateClicked == last'.op = "handleGenerateClick"

\* C2: handleGenerateClick with an empty or whitespace-only prompt issues
\* no network call (no request is started, the in-flight flag, the image
\* and the history stay as they are) and sets the validation error.
C2_BlankPromptNoCall ==
    [][(GenerateClicked /\ prompt \in BlankPrompts) =>
          /\ last'.issued = {}
          /\ pending' = pending
          /\ now' = now
          /\ error' = ValidationError
          /\ UNCHANGED << isLoading, generatedImageUrl, lastGeneratedPrompt,
                          generationHistory >>]_vars

\* C2's case: the handler ran on a prompt of blanks while no request was
\* outstanding, and left the validation error.
C2_Witness ==
    /\ last = [op |-> "handleGenerateClick", issued |-> {}]
    /\ prompt = "  "
    /\ error = ValidationError
    /\ pending = {}
    /\ ~isLoading


\* C8: every generation that has set the in-flight flag clears it: the
\* completion of a generation leaves the flag false however the fetch
\* settled, so a flag that is set is cleared in the end (checked under
\* FairSpec: every fetch settles).
C8_InFlightFlagCleared ==
    /\ [][(last'.op = "generation settled" /\ pending' # pending) => ~isLoading']_vars
    /\ (isLoading ~> ~isLoading)

\* C8's case: a generation ended with a network failure and the flag is off.
C8_Witness ==
    /\ last.op = "generation settled"
    /\ last.fetched = Err("TypeError", "Failed to fetch")
    /\ ~isLoading
    /\ pending = {}

\* An image URL at data[0].url.
HasImageUrl(v) ==
    /\ Available(v, "data")
    /\ v.o["data"].t = "array"
    /\ Len(v.o["data"].a) >= 1
    /\ Available(v.o["data"].a[1], "url")

\* A generation fails when its fetch rejects, the Gateway answers with an
\* error status, the body is not JSON, or the body has no image URL.
GenerationFailed(fetched) ==
    \/ ~fetched.ok
    \/ ~SuccessStatus(fetched.v.status)
    \/ fetched.v.body.kind # "json"
    \/ ~HasImageUrl(fetched.v.body.value)

\* The step is the completion of a generation.
GenerationSettles == last'.op = "generation settled" /\ pending' # pending

\* C9: a generation that fails leaves the history and the prompt-of-record
\* as they are, unsets the displayed image and sets an error message; one
\* that succeeds sets the image and the prompt-of-record; and the history
\* changes in no step but the completion of a successful generation.
C9_UpdatesOnlyOnSuccess ==
    [][/\ GenerationSettles =>
            IF GenerationFailed(last'.fetched)
            THEN /\ generationHistory' = generationHistory
                 /\ lastGeneratedPrompt' = lastGeneratedPrompt
                 /\ generatedImageUrl' = Null
                 /\ error' # Null
            ELSE /\ generatedImageUrl' = FieldOf(last'.fetched.v.body.value.o["data"].a[1], "url")
                 /\ lastGeneratedPrompt' = Str(last'.request.prompt)
       /\ generationHistory' # generationHistory =>
            GenerationSettles /\ ~GenerationFailed(last'.fetched)]_vars

\* C9's case: after a successful generation, one is refused by the
\* provider: the history still holds the one entry, no image is displayed.
C9_Witness ==
    /\ last.op = "generation settled"
    /\ last.fetched.ok
    /\ last.fetched.v.status = 429
    /\ Len(generationHistory) = 1
    /\ generationHistory[1].timestamp < last.request.timestamp
    /\ generatedImageUrl = Null
    /\ error = Str("Friendli API Error: rate limited")

\* The cap of the history.
HistoryCap == HistoryKept + 1

\* The entry of the generation that has just completed.
SettledEntry ==
    [imageUrl |-> generatedImageUrl', prompt |-> last'.request.prompt,
     timestamp |-> last'.request.timestamp]

\* C10: the history never holds more than 10 entries; the completion of a
\* successful generation puts its entry first, keeps the earlier entries
\* behind it in their order, and drops none but the last ones, those beyond
\* the cap of 10.
C10_HistoryCapped ==
    /\ [](Len(generationHistory) <= HistoryCap)
    /\ [][(GenerationSettles /\ ~GenerationFailed(last'.fetched)) =>
            /\ Len(generationHistory') =
                  IF Len(generationHistory) < HistoryCap
                  THEN Len(generationHistory) + 1 ELSE HistoryCap
            /\ generationHistory'[1] = SettledEntry
            /\ \A i \in 2..Len(generationHistory') :
                  generationHistory'[i] = generationHistory[i - 1]]_vars

\* C10's case: a successful generation completed on a full history: its
\* entry is first and the last entry of the earlier history is gone.
C10_Witness ==
    /\ last.op = "generation settled"
    /\ last.ok
    /\ Len(last.previousHistory) = HistoryCap
    /\ Len(generationHistory) = HistoryCap
    /\ generationHistory[1].timestamp = last.request.timestamp
    /\ \A i \in 1..Len(generationHistory) :
          generationHistory[i] # last.previousHistory[HistoryCap]

RateLimitedBody == JsonText(Obj([error |-> Str("Friendli API Error: rate limited")]), TRUE)

\* C12: for every generation request that is outstanding, the Gateway
\* answers the provider's 429 { error: { message: "rate limited" } } with
\* status 429 and the body { error: "Friendli API Error: rate limited" };
\* and the completion of a generation with that answer leaves the error
\* message "Friendli API Error: rate limited" (it contains "rate limited")
\* and no displayed image.
C12_RateLimitedEndToEnd ==
    /\ [](\A r \in pending :
            \E result \in {POST([body |-> r.body], RateLimitedProvider)} :
                /\ result.kind = "return"
                /\ result.response.status = 429
                /\ result.response.body = RateLimitedBody)
    /\ [][(GenerationSettles /\ last'.fetched.ok /\ last'.fetched.v.status = 429
              /\ last'.fetched.v.body = RateLimitedBody) =>
            /\ error' = Str("Friendli API Error: rate limited")
            /\ generatedImageUrl' = Null]_vars

\* C12's case: a generation was answered with the Gateway's 429 and the
\* page shows the message, no image, and is not loading.
C12_Witness ==
    /\ last.op = "generation settled"
    /\ last.fetched.ok
    /\ last.fetched.v.status = 429
    /\ last.fetched.v.body = RateLimitedBody
    /\ error = Str("Friendli API Error: rate limited")
    /\ generatedImageUrl = Null
    /\ ~isLoading

\* C14: handleGenerateClick with a prompt that is not empty (nor blanks
\* only) clears the error, the displayed image and the prompt-of-record,
\* sets the in-flight flag and issues exactly one POST to the Gateway: one
\* request more is outstanding, with the prompt of the form in its body.
C14_StartClearsAndIssuesOne ==
    [][(GenerateClicked /\ prompt \notin BlankPrompts) =>
          /\ error' = Null
          /\ generatedImageUrl' = Null
          /\ lastGeneratedPrompt' = Null
          /\ isLoading'
          /\ Cardinality(last'.issued) = 1
          /\ last'.issued \cap pending = {}
          /\ pending' = pending \cup last'.issued
          /\ \A r \in last'.issued :
                /\ r.body.kind = "json"
                /\ FieldOf(r.body.value, "prompt") = Str(prompt)]_vars

\* C14's case: with an entry in the history and its prompt loaded again,
\* a generation has just started: nothing is displayed, the flag is set
\* and one request is outstanding.
C14_Witness ==
    /\ last.op = "handleGenerateClick"
    /\ Cardinality(last.issued) = 1
    /\ pending = last.issued
    /\ Len(generationHistory) = 1
    /\ prompt = generationHistory[1].prompt
    /\ generatedImageUrl = Null
    /\ lastGeneratedPrompt = Null
    /\ error = Null
    /\ isLoading

\* The generation failed with an error status or at the network level.
FailedOutright(fetched) == ~fetched.ok \/ ~SuccessStatus(fetched.v.status)

\* The message C15 names for such a failure: the error message the
\* response carries, else the generic message with the HTTP status of the
\* response; for a fetch that was rejected there is no response, and the
\* message is the one of the rejection.
ClaimedFailureMessage(fetched) ==
    IF ~fetched.ok THEN fetched.e.message
    ELSE IF fetched.v.body.kind = "json" /\ Available(fetched.v.body.value, "error")
    THEN TemplateString(fetched.v.body.value.o["error"])
    ELSE "API request failed: " \o fetched.v.statusText

\* C15: the completion of a generation that failed with an error status
\* or at the network level sets as error message the error message of the
\* Gateway's response when it carries one, and the generic message with
\* the HTTP status otherwise.
C15_FailureMessage ==
    [][(GenerationSettles /\ FailedOutright(last'.fetched)) =>
          error' = Str(ClaimedFailureMessage(last'.fetched))]_vars

StructureUnexpected == Str("API response structure unexpected or missing image URL.")

\* The Gateway answered with a success status and a JSON body without an
\* image URL at data[0].url.
AnsweredWithoutImageUrl(fetched) ==
    /\ fetched.ok
    /\ SuccessStatus(fetched.v.status)
    /\ fetched.v.body.kind = "json"
    /\ ~HasImageUrl(fetched.v.body.value)

\* C16: the completion of a generation whose answer has a success status
\* and no image URL at data[0].url sets the error "API response structure
\* unexpected or missing image URL.", leaves no image displayed and leaves
\* the history as it is.
C16_MissingUrlIsMalformed ==
    [][(GenerationSettles /\ AnsweredWithoutImageUrl(last'.fetched)) =>
          /\ error' = StructureUnexpected
          /\ generatedImageUrl' = Null
          /\ generationHistory' = generationHistory
          /\ lastGeneratedPrompt' = lastGeneratedPrompt]_vars

\* C16's case: after a successful generation, one is answered with an
\* empty url: the history keeps its one entry and no image is displayed.
C16_Witness ==
    /\ last.op = "generation settled"
    /\ last.fetched.ok
    /\ last.fetched.v.status = 200
    /\ last.fetched.v.body = JsonText(Obj([data |-> Arr(<< Obj([url |-> Str("")]) >>)]), TRUE)
    /\ error = StructureUnexpected
    /\ generatedImageUrl = Null
    /\ Len(generationHistory) = 1
    /\ generationHistory = last.previousHistory

\* The two numbers of a resolution of the selector.
SideOf(res) ==
    CASE res = "512x512" -> 512
      [] res = "768x768" -> 768
      [] res = "1024x1024" -> 1024

\* C17: the body of the POST that handleGenerateClick issues is built from
\* the form as it is when the handler runs: the prompt, the positions of
\* the two sliders, the two numbers of the resolution, response_format
\* "url", and negative_prompt if and only if the negative prompt is not
\* empty; the form of the example gives exactly the example's payload.
C17_PayloadFromForm ==
    [][(GenerateClicked /\ last'.issued # {}) =>
          \A r \in last'.issued :
              /\ r.body.kind = "json"
              /\ r.body.value.t = "object"
              /\ DOMAIN r.body.value.o =
                    {"prompt", "num_inference_steps", "guidance_scale", "width", "height",
                     "response_format"}
                    \cup (IF negativePrompt # "" THEN {"negative_prompt"} ELSE {})
              /\ r.body.value.o["prompt"] = Str(prompt)
              /\ r.body.value.o["num_inference_steps"] = Num(steps)
              /\ r.body.value.o["guidance_scale"] = Num(guidanceScale)
              /\ r.body.value.o["width"] = Num(SideOf(resolution))
              /\ r.body.value.o["height"] = Num(SideOf(resolution))
              /\ r.body.value.o["response_format"] = Str("url")
              /\ negativePrompt # "" =>
                    r.body.value.o["negative_prompt"] = Str(negativePrompt)
              /\ (/\ prompt = "a red cube" /\ steps = 30 /\ guidanceScale = 7
                  /\ resolution = "1024x1024" /\ negativePrompt = "") =>
                    r.body.value =
                       Obj([prompt |-> Str("a red cube"), num_inference_steps |-> Num(30),
                            guidance_scale |-> Num(7), width |-> Num(1024),
                            height |-> Num(1024), response_format |-> Str("url")])]_vars

\* C17's case: every field of the form was changed before the click, and
\* the request carries the changed values.
C17_Witness ==
    /\ last.op = "handleGenerateClick"
    /\ prompt = " a cat " /\ negativePrompt = "blurry" /\ resolution = "512x512"
    /\ steps = 50 /\ guidanceScale = 15
    /\ \E r \in last.issued :
          r.body.value =
             Obj([prompt |-> Str(" a cat "), negative_prompt |-> Str("blurry"),
                  num_inference_steps |-> Num(50), guidance_scale |-> Num(15),
                  width |-> Num(512), height |-> Num(512), response_format |-> Str("url")])

\* C19: with the generate button disabled whenever the in-flight flag is
\* set, at most one generation request is outstanding at any time, and the
\* flag is set exactly while one is.
C19_OneOutstandingWhenRendered ==
    /\ Cardinality(pending) <= 1
    /\ isLoading <=> pending # {}

\* C19's case: the second generation is outstanding, alone, after the
\* first one completed; the button is disabled.
C19_Witness ==
    /\ now = 2
    /\ Cardinality(pending) = 1
    /\ \A r \in pending : r.timestamp = 2
    /\ isLoading
    /\ GenerateButtonDisabled
    /\ ~PromptIsBlank(prompt)

\* C20: the flag is advisory.  handleGenerateClick invoked with a prompt
\* while the flag is set (a request is outstanding) issues its POST all the
\* same, so that one request more is outstanding; and the completion of a
\* generation clears the flag also when other requests are still
\* outstanding.
C20_FlagIsAdvisory ==
    /\ [][(GenerateClicked /\ isLoading /\ prompt \notin BlankPrompts) =>
            /\ Cardinality(last'.issued) = 1
            /\ pending' = pending \cup last'.issued
            /\ Cardinality(pending') = Cardinality(pending) + 1]_vars
    /\ [][(GenerationSettles /\ pending' # {}) => ~isLoading']_vars

\* C20's case: two requests were outstanding together, the first has
\* completed and cleared the flag, the second is still outstanding.
C20_Witness ==
    /\ last.op = "generation settled"
    /\ last.request.timestamp = 1
    /\ Cardinality(pending) = 1
    /\ \A r \in pending : r.timestamp = 2
    /\ ~isLoading

(***************************************************************************)
(* Properties of a page session (checked under SpecSession and             *)
(* SpecSessionRendered)                                                    *)
(***************************************************************************)
DownloadInvoked == last'.op = "handleDownloadImage"

DownloadSettles == last'.op = "download settled" /\ downloading' # downloading

DownloadFailures == {"Failed to fetch", "Failed to fetch image (404 Not Found)"}

DisplayFrame == << generatedImageUrl, lastGeneratedPrompt, generationHistory >>

\* C21: a download is decoupled from generation.  A step of
\* handleDownloadImage, at its start and at its end, whether the download
\* succeeds or fails, leaves the displayed image, the prompt-of-record and
\* the history as they are, issues no generation request and does not reach
\* the Gateway: what it fetches is the displayed image URL.  A failed
\* download sets an error that starts with "Download failed: " and clears
\* the in-flight flag, and changes nothing else of the page.  Invoked with
\* no displayed image the handler changes nothing.
C21_DownloadDecoupled ==
    [][ /\ (DownloadInvoked \/ DownloadSettles) =>
              /\ UNCHANGED DisplayFrame
              /\ UNCHANGED << pending, gatewayVars >>
        /\ DownloadInvoked => last'.fetching \subseteq {generatedImageUrl}
        /\ (DownloadSettles /\ ~last'.saved) =>
              /\ \E m \in DownloadFailures : error' = Str("Download failed: " \o m)
              /\ isLoading' = FALSE
              /\ UNCHANGED << formVars, DisplayFrame, showHistory, currentBlobUrl,
                              stylePreset, showSuggestions, now >>
        /\ (DownloadInvoked /\ ~Truthy(generatedImageUrl)) =>
              UNCHANGED << formVars, resultVars, sessionVars, now, pending, gatewayVars >>
      ]_vars

\* A download has just failed on a page that displays an image with its
\* prompt-of-record: the message is shown and the flag is clear.
C21_Witness ==
    /\ last.op = "download settled"
    /\ ~last.saved
    /\ Truthy(generatedImageUrl)
    /\ Truthy(lastGeneratedPrompt)
    /\ error = Str("Download failed: Failed to fetch image (404 Not Found)")
    /\ ~isLoading

Entries(history) == { history[i] : i \in 1..Len(history) }

EntriesLeaving == Entries(generationHistory) \ Entries(generationHistory')

\* C22: nothing deletes from the history.  On every step of the page
\* (generation started, succeeded or failed, download, load from history,
\* style preset, example prompt, edit, error dismissal) the history has at
\* least as many entries after it as before, and an entry is in the history
\* before the step and not after it only when the step is a successful
\* generation onto a history of 10 entries: the entry that leaves is then
\* the oldest one, and the ten entries kept are the new one followed by the
\* nine newest.
C22_HistoryOnlyGrows ==
    [][ /\ Len(generationHistory') >= Len(generationHistory)
        /\ EntriesLeaving # {} =>
              /\ GenerationSettles /\ last'.ok
              /\ Len(generationHistory) = HistoryCap
              /\ EntriesLeaving = { generationHistory[HistoryCap] }
              /\ Len(generationHistory') = HistoryCap
              /\ generationHistory'[1].timestamp > generationHistory[1].timestamp
              /\ \A i \in 1..HistoryKept : generationHistory'[i + 1] = generationHistory[i]
      ]_vars

\* The eleventh successful generation of the session has just pushed the
\* first one out of a history of ten.
C22_Witness ==
    /\ last.op = "generation settled"
    /\ last.ok
    /\ Len(last.previousHistory) = HistoryCap
    /\ Len(generationHistory) = HistoryCap
    /\ last.previousHistory[HistoryCap] \notin Entries(generationHistory)
    /\ generationHistory[1].timestamp = GenerationsBefore + 1

\* C23: from the start of a generation until its completion the displayed
\* image is unset: in every state in which a generation request is
\* outstanding, generatedImageUrl is null, whatever other handlers of the
\* page have run since the request was issued.
C23_ImageUnsetWhileInFlight ==
    pending # {} => generatedImageUrl = Null

\* The prompt in the body of a generation request, as sent.
SentPrompt(request) == JSONparse(request.body).v.o.prompt.s

\* C24: the completion of a successful generation writes the prompt that
\* was sent in its request (the "prompt" of the POST body) as the
\* prompt-of-record and as the prompt of the new first history entry,
\* together with that request's timestamp, whatever the prompt field holds
\* when the request completes.
C24_RecordsPromptSent ==
    [][ (GenerationSettles /\ last'.ok) =>
            /\ lastGeneratedPrompt' = Str(SentPrompt(last'.request))
            /\ generationHistory'[1].prompt = SentPrompt(last'.request)
            /\ generationHistory'[1].timestamp = last'.request.timestamp
      ]_vars

\* A generation sent with "a red cube" has just succeeded after the prompt
\* field was changed while it was in flight: the field holds the example
\* prompt with the keywords of the photo preset, the record holds what was
\* sent.
C24_Witness ==
    /\ last.op = "generation settled"
    /\ last.ok
    /\ SentPrompt(last.request) = "a red cube"
    /\ prompt = "Astronaut riding a horse on the moon, detailed, high resolution"
                   \o stylePromptSuffix("photo")
    /\ lastGeneratedPrompt = Str("a red cube")
    /\ generationHistory[1].prompt = "a red cube"
    /\ generationHistory[1].timestamp = GenerationsBefore + 1

Displays(entry) ==
    /\ generatedImageUrl = entry.imageUrl
    /\ lastGeneratedPrompt = Str(entry.prompt)

\* C25: what the page displays is an entry of its history.  In every state
\* of a session driven through the buttons as rendered (generations that
\* succeed or fail, history loads, downloads, prompt changes) in which a
\* displayed image is set, some entry currently in the history has that
\* image URL as its imageUrl and the prompt-of-record as its prompt.
C25_DisplayedPairInHistory ==
    Truthy(generatedImageUrl) =>
        \E i \in 1..Len(generationHistory) : Displays(generationHistory[i])

\* An eleventh generation has succeeded on another prompt, and an earlier
\* item has been loaded from the history since: the page displays an entry
\* that is not the newest.
C25_Witness ==
    /\ last.op = "loadFromHistory"
    /\ generationHistory[1].timestamp = GenerationsBefore + 1
    /\ Truthy(generatedImageUrl)
    /\ generationHistory[1].imageUrl = Str("https://x/other.png")
    /\ ~Displays(generationHistory[1])
    /\ Displays(generationHistory[last.item])

GenerationOutstanding == pending # {}

DownloadOutstanding == downloading # << >>

\* C26: generation and download share the one in-flight flag.  On a page
\* whose generate and download buttons are rendered from the current state
\* (each can be clicked only while isLoading is false), no state has a
\* generation request and a download fetch outstanding together, at most
\* one request of either kind is outstanding, and isLoading is true in
\* every state in which one is.
C26_SharedFlag ==
    /\ ~(GenerationOutstanding /\ DownloadOutstanding)
    /\ Cardinality(pending) + Len(downloading) <= 1
    /\ (GenerationOutstanding \/ DownloadOutstanding) => isLoading

\* A download is outstanding with the flag set, right after a generation
\* has completed and cleared the flag: the generate button is disabled
\* although the prompt is not blank.
C26_Witness ==
    /\ DownloadOutstanding
    /\ ~GenerationOutstanding
    /\ isLoading
    /\ last.op = "handleDownloadImage"
    /\ now = GenerationsBefore + 1
    /\ ~PromptIsBlank(prompt)
    /\ GenerateButtonDisabled

=============================================================================
